---- MODULE Spec2Model ----
(***************************************************************************)
(* Model of iostat_analysis/detailed_await_analysis.py.                    *)
(*                                                                         *)
(* Text is modelled at the character level: a string is a sequence of      *)
(* one-character strings, so that strip, split, the line-number prefix     *)
(* removal, the timestamp pattern and float() are computed as the code     *)
(* computes them.  A float is an exact decimal fraction n/d, an infinity   *)
(* or NaN; comparisons follow IEEE-754 (every comparison with NaN is       *)
(* false), which is what Python's <, >, >= and max() use.                  *)
(***************************************************************************)
EXTENDS Integers, Sequences, FiniteSets, TLC

VARIABLES
    pc,                 \* position of the running code
    args,               \* argparse namespace: threshold, detailed, limit, extreme_only
    threshold,          \* main: threshold / check_high_await_times: parameter
    iostat_files,       \* main: sorted(glob.glob("iostat-*.output"))
    fidx,               \* main: index of the next file of the per-file loop
    all_results,        \* main: all_results
    by_server,          \* main: by_server, as a sequence of [server, entries] in insertion order
    server_summary,     \* main: the printed per-server lines [server, count, max_await], sorted by server
    display_limit,      \* main: display_limit
    table_rows,         \* main: the rows printed in the summary table
    detailed_rows,      \* main: the entries printed by print_detailed_entry
    breakdown,          \* main: the seven printed bucket counts
    filepath,           \* check_high_await_times: filepath
    lines,              \* check_high_await_times: lines
    line_number,        \* check_high_await_times: line_number (lines consumed so far)
    current_timestamp,  \* check_high_await_times: current_timestamp
    high_await_lines    \* check_high_await_times: high_await_lines

vars == <<pc, args, threshold, iostat_files, fidx, all_results, by_server,
          server_summary, display_limit, table_rows, detailed_rows, breakdown,
          filepath, lines, line_number, current_timestamp, high_await_lines>>

mainVars == <<args, iostat_files, fidx, all_results, by_server, server_summary,
              display_limit, table_rows, detailed_rows, breakdown>>

scanVars == <<filepath, lines, line_number, current_timestamp, high_await_lines>>

(***************************************************************************)
(* Bounds                                                                  *)
(***************************************************************************)
MaxLines == 3          \* lines per file when one file is scanned line by line
MaxFileLines == 2      \* lines per file in a whole run of main
MaxFiles == 2          \* files matched by the glob in a whole run of main

(***************************************************************************)
(* Generic helpers                                                         *)
(***************************************************************************)
SetMin(S) == CHOOSE x \in S : \A y \in S : x <= y

SetMax(S) == CHOOSE x \in S : \A y \in S : x >= y

RECURSIVE Pow10(_)
Pow10(k) == IF k = 0 THEN 1 ELSE 10 * Pow10(k - 1)

RECURSIVE SeqsUpTo(_, _)
SeqsUpTo(S, n) ==
    IF n = 0 THEN {<<>>}
    ELSE LET shorter == SeqsUpTo(S, n - 1)
         IN  shorter \cup {Append(s, x) : s \in {t \in shorter : Len(t) = n - 1}, x \in S}

Reverse(s) == [i \in 1..Len(s) |-> s[Len(s) + 1 - i]]

(***************************************************************************)
(* Floats                                                                  *)
(***************************************************************************)
Num(n, d) == [k |-> "num", n |-> n, d |-> d]

NaN == [k |-> "nan", n |-> 0, d |-> 1]

Inf(sign) == [k |-> "inf", n |-> sign, d |-> 1]

\* a < b on floats
Lt(a, b) ==
    /\ a.k # "nan"
    /\ b.k # "nan"
    /\ IF a.k = "inf" THEN a.n < 0 /\ ~(b.k = "inf" /\ b.n < 0)
       ELSE IF b.k = "inf" THEN b.n > 0
       ELSE a.n * b.d < b.n * a.d

Gt(a, b) == Lt(b, a)

\* a == b on floats
FEq(a, b) ==
    /\ a.k # "nan"
    /\ b.k # "nan"
    /\ ~Lt(a, b)
    /\ ~Lt(b, a)

Ge(a, b) == Gt(a, b) \/ FEq(a, b)

Le(a, b) == Lt(a, b) \/ FEq(a, b)

\* max(a, b): the first argument unless the second compares greater
PyMax(a, b) == IF Gt(b, a) THEN b ELSE a

(***************************************************************************)
(* Strings                                                                 *)
(***************************************************************************)
Digits == {"0", "1", "2", "3", "4", "5", "6", "7", "8", "9"}

DigitVal(c) ==
    CASE c = "0" -> 0 [] c = "1" -> 1 [] c = "2" -> 2 [] c = "3" -> 3
      [] c = "4" -> 4 [] c = "5" -> 5 [] c = "6" -> 6 [] c = "7" -> 7
      [] c = "8" -> 8 [] c = "9" -> 9

IsSpace(c) == c \in {" ", "\t", "\n", "\r"}

\* str.isdigit()
IsDigitStr(s) == Len(s) > 0 /\ \A i \in 1..Len(s) : s[i] \in Digits

\* c in s
HasChar(s, c) == \E i \in 1..Len(s) : s[i] = c

\* s.startswith(p)
StartsWith(s, p) == Len(s) >= Len(p) /\ SubSeq(s, 1, Len(p)) = p

\* the first index from i on whose character is not whitespace (Len(s) + 1 if none)
RECURSIVE SkipSpaces(_, _)
SkipSpaces(s, i) ==
    IF i > Len(s) \/ ~IsSpace(s[i]) THEN i ELSE SkipSpaces(s, i + 1)

\* the first index from i on whose character is whitespace (Len(s) + 1 if none)
RECURSIVE SkipWord(_, _)
SkipWord(s, i) ==
    IF i > Len(s) \/ IsSpace(s[i]) THEN i ELSE SkipWord(s, i + 1)

\* the last index up to i whose character is not whitespace (0 if none)
RECURSIVE SkipSpacesBack(_, _)
SkipSpacesBack(s, i) ==
    IF i < 1 \/ ~IsSpace(s[i]) THEN i ELSE SkipSpacesBack(s, i - 1)

\* the first index from i on whose character is c (Len(s) + 1 if none)
RECURSIVE Find(_, _, _)
Find(s, c, i) ==
    IF i > Len(s) \/ s[i] = c THEN i ELSE Find(s, c, i + 1)

\* s.strip()
Strip(s) == SubSeq(s, SkipSpaces(s, 1), SkipSpacesBack(s, Len(s)))

\* s.split(c), from index i on
RECURSIVE SplitOnFrom(_, _, _)
SplitOnFrom(s, c, i) ==
    LET j == Find(s, c, i)
    IN  IF j > Len(s) THEN <<SubSeq(s, i, Len(s))>>
        ELSE <<SubSeq(s, i, j - 1)>> \o SplitOnFrom(s, c, j + 1)

\* s.split(c)
SplitOn(s, c) == SplitOnFrom(s, c, 1)

\* c.join(parts)
RECURSIVE JoinWith(_, _)
JoinWith(parts, c) ==
    IF Len(parts) = 0 THEN <<>>
    ELSE IF Len(parts) = 1 THEN parts[1]
    ELSE parts[1] \o <<c>> \o JoinWith(Tail(parts), c)

\* s.split(), from index i on: the maximal runs of non-whitespace characters
RECURSIVE SplitFrom(_, _)
SplitFrom(s, i) ==
    LET b == SkipSpaces(s, i)
        e == SkipWord(s, b)
    IN  IF b > Len(s) THEN <<>> ELSE <<SubSeq(s, b, e - 1)>> \o SplitFrom(s, e)

\* s.split()
Split(s) == SplitFrom(s, 1)

\* os.path.basename(p)
Basename(p) == LET parts == SplitOn(p, "/") IN parts[Len(parts)]

\* str.lower() on the letters float() looks at
LowerChar(c) ==
    CASE c = "N" -> "n" [] c = "A" -> "a" [] c = "I" -> "i" [] c = "F" -> "f"
      [] c = "T" -> "t" [] c = "Y" -> "y" [] OTHER -> c

Lower(s) == [i \in 1..Len(s) |-> LowerChar(s[i])]

RECURSIVE DigitsVal(_)
DigitsVal(s) == IF Len(s) = 0 THEN 0
                ELSE 10 * DigitsVal(SubSeq(s, 1, Len(s) - 1)) + DigitVal(s[Len(s)])

\* float(s) for a token without whitespace, exponent or underscores:
\* [+-] (nan | inf | infinity | digits [. [digits]] | . digits).
\* ok = FALSE stands for ValueError.
Float(s) ==
    LET signed == Len(s) > 0 /\ s[1] \in {"+", "-"}
        sign == IF signed /\ s[1] = "-" THEN -1 ELSE 1
        body == IF signed THEN Tail(s) ELSE s
        low == Lower(body)
        dot == Find(body, ".", 1)
        ip == SubSeq(body, 1, dot - 1)
        fp == SubSeq(body, dot + 1, Len(body))
    IN  IF low = <<"n", "a", "n">> THEN [ok |-> TRUE, v |-> NaN]
        ELSE IF low = <<"i", "n", "f">> \/ low = <<"i", "n", "f", "i", "n", "i", "t", "y">>
             THEN [ok |-> TRUE, v |-> Inf(sign)]
        ELSE IF /\ \A i \in 1..Len(ip) : ip[i] \in Digits
                /\ \A i \in 1..Len(fp) : fp[i] \in Digits
                /\ Len(ip) + Len(fp) > 0
             THEN [ok |-> TRUE, v |-> Num(sign * DigitsVal(ip \o fp), Pow10(Len(fp)))]
        ELSE [ok |-> FALSE, v |-> NaN]

(***************************************************************************)
(* check_high_await_times: one iteration of the line loop                  *)
(***************************************************************************)
\* the line without an injected "<digits>|" prefix, stripped
CleanLine(line) ==
    LET parts == SplitOn(line, "|")
    IN  IF HasChar(line, "|") /\ IsDigitStr(parts[1])
        THEN Strip(JoinWith(Tail(parts), "|"))
        ELSE Strip(line)

\* \d{2}/\d{2}/\d{4} \d{2}:\d{2}:\d{2} [APM]{2}
TimestampPattern ==
    <<"d", "d", "/", "d", "d", "/", "d", "d", "d", "d", " ",
      "d", "d", ":", "d", "d", ":", "d", "d", " ", "m", "m">>

\* re.match(pattern, s): the pattern matches a prefix of s
IsTimestamp(s) ==
    /\ Len(s) >= Len(TimestampPattern)
    /\ \A i \in 1..Len(TimestampPattern) :
          CASE TimestampPattern[i] = "d" -> s[i] \in Digits
            [] TimestampPattern[i] = "m" -> s[i] \in {"A", "P", "M"}
            [] OTHER -> s[i] = TimestampPattern[i]

DeviceWord == <<"D", "e", "v", "i", "c", "e">>

AvgCpuWord == <<"a", "v", "g", "-", "c", "p", "u">>

LinuxWord == <<"L", "i", "n", "u", "x">>

MinFields == 16

\* the guards of a device statistics line
IsDeviceLine(clean_line) ==
    LET parts == Split(clean_line)
    IN  /\ Len(clean_line) > 0
        /\ ~StartsWith(clean_line, DeviceWord)
        /\ ~StartsWith(clean_line, AvgCpuWord)
        /\ Len(parts) >= MinFields
        /\ parts[1] \notin {LinuxWord, <<>>}

\* r_await > threshold or w_await > threshold
ExceedsThreshold(r_await, w_await, t) == Gt(r_await, t) \/ Gt(w_await, t)

\* current_timestamp at the start of a call
InitialTimestamp == <<>>

\* as NextTimestamp, but a timestamp line is carried with its line-number prefix
NextTimestamp_KeepsPrefix(ts, line) ==
    IF IsTimestamp(CleanLine(line)) THEN Strip(line) ELSE ts

\* the value of current_timestamp after the line
NextTimestamp(ts, line) ==
    LET clean_line == CleanLine(line)
    IN  IF IsTimestamp(clean_line) THEN clean_line ELSE ts

\* as LineRecords, but an await token that float() rejects counts as 0.0
LineRecords_ZeroOnError(path, n, line, ts, t) ==
    LET clean_line == CleanLine(line)
        parts == Split(clean_line)
        r == IF Float(parts[10]).ok THEN Float(parts[10]).v ELSE Num(0, 1)
        w == IF Float(parts[11]).ok THEN Float(parts[11]).v ELSE Num(0, 1)
    IN  IF IsTimestamp(clean_line) THEN <<>>
        ELSE IF ~IsDeviceLine(clean_line) THEN <<>>
        ELSE IF ~ExceedsThreshold(r, w, t) THEN <<>>
        ELSE << [filename |-> Basename(path),
                 full_filepath |-> path,
                 line_number |-> n,
                 original_line |-> Strip(line),
                 timestamp |-> ts,
                 device |-> parts[1],
                 r_await |-> r,
                 w_await |-> w,
                 clean_line |-> clean_line,
                 all_parts |-> parts] >>

\* the records the line appends to high_await_lines (none or one)
LineRecords(path, n, line, ts, t) ==
    LET clean_line == CleanLine(line)
        parts == Split(clean_line)
        r == Float(parts[10])
        w == Float(parts[11])
    IN  IF IsTimestamp(clean_line) THEN <<>>
        ELSE IF ~IsDeviceLine(clean_line) THEN <<>>
        ELSE IF ~r.ok \/ ~w.ok THEN <<>>
        ELSE IF ~ExceedsThreshold(r.v, w.v, t) THEN <<>>
        ELSE << [filename |-> Basename(path),
                 full_filepath |-> path,
                 line_number |-> n,
                 original_line |-> Strip(line),
                 timestamp |-> ts,
                 device |-> parts[1],
                 r_await |-> r.v,
                 w_await |-> w.v,
                 clean_line |-> clean_line,
                 all_parts |-> parts] >>

\* the whole call: the loop over lines[n..], from carried timestamp ts
RECURSIVE ScanFrom(_, _, _, _, _)
ScanFrom(path, ls, n, ts, t) ==
    IF n > Len(ls) THEN <<>>
    ELSE LineRecords(path, n, ls[n], ts, t)
           \o ScanFrom(path, ls, n + 1, NextTimestamp(ts, ls[n]), t)

check_high_await_times(path, ls, t) == ScanFrom(path, ls, 1, InitialTimestamp, t)

(***************************************************************************)
(* Inputs: the lines files are made of, file names, command lines          *)
(***************************************************************************)
T1_0 == <<"1", ".", "0">>

T2_0 == <<"2", ".", "0">>

T3_0 == <<"3", ".", "0">>

T4_0 == <<"4", ".", "0">>

T0_0 == <<"0", ".", "0">>

T0_5 == <<"0", ".", "5">>

T0_1 == <<"0", ".", "1">>

T20_0 == <<"2", "0", ".", "0">>

\* a 16-column device row: device, r/s, w/s, rkB/s, wkB/s, rrqm/s, wrqm/s,
\* %rrqm, %wrqm, r_await, w_await, aqu-sz, rareq-sz, wareq-sz, svctm, %util
Row(dev, r, w) ==
    JoinWith(<<dev, T1_0, T2_0, T3_0, T4_0, T0_0, T0_0, T0_0, T0_0, r, w,
               T0_5, T4_0, T4_0, T0_1, T20_0>>, " ")

\* a timestamp line
LineTs1 == <<"0", "7", "/", "0", "1", "/", "2", "0", "2", "4", " ", "0", "3", ":", "0", "0", ":", "0", "0", " ", "P", "M">>

\* a timestamp line behind a line-number prefix
LineTs2 == <<"7", "|", "0", "7", "/", "0", "1", "/", "2", "0", "2", "4", " ", "0", "3", ":", "0", "5", ":", "0", "0", " ", "A", "M">>

\* a device row, read await 150.5
LineRowA ==
    Row(<<"s", "d", "a">>, <<"1", "5", "0", ".", "5">>, <<"1", "2", ".", "0">>)

\* a device row behind a line-number prefix, negative read await
LineRowB ==
    <<"3", "|">> \o Row(<<"s", "d", "b">>, <<"-", "5", ".", "0">>, <<"1", "5", "0", ".", "5">>)

\* a device row whose read await is printed as nan
LineRowNan ==
    Row(<<"s", "d", "c">>, <<"n", "a", "n">>, <<"6", "0", "0", "0", ".", "0">>)

\* a device row whose read await is not a number
LineRowBad ==
    Row(<<"s", "d", "d">>, <<"n", "/", "a">>, <<"6", "0", "0", "0", ".", "0">>)

\* an indented device row with low awaits
LineRowLo ==
    <<" ", " ">> \o Row(<<"s", "d", "e">>, <<"5", "0", ".", "0">>, <<"6", "0", ".", "0">>)

\* a 16-token line that starts with Linux
LineRowLinux ==
    Row(<<"L", "i", "n", "u", "x">>, <<"7", "0", "0", "0", ".", "0">>, <<"7", "0", "0", "0", ".", "0">>)

\* a device row cut after its tenth token
LineShort ==
    JoinWith(<<<<"s", "d", "f">>, T1_0, T2_0, T3_0, T4_0, T0_0, T0_0, T0_0, T0_0, <<"9", "0", "0", "0", ".", "0">>>>, " ")

Library ==
    {LineTs1, LineTs2, LineRowA, LineRowB, LineRowNan, LineRowBad, LineRowLo,
     LineRowLinux, LineShort}

\* the lines of the files of a whole run
RunLibrary == {LineTs1, LineRowA, LineRowB, LineRowNan, LineRowLo}

FileA == <<"i", "o", "s", "t", "a", "t", "-", "1", "0", ".", "0", ".", "0", ".", "1", "-", "a", ".", "o", "u", "t", "p", "u", "t">>

FileB == <<"i", "o", "s", "t", "a", "t", "-", "1", "0", ".", "0", ".", "0", ".", "2", "-", "b", ".", "o", "u", "t", "p", "u", "t">>

FileC == <<"i", "o", "s", "t", "a", "t", "-", "1", "0", ".", "0", ".", "0", ".", "1", "-", "c", ".", "o", "u", "t", "p", "u", "t">>

\* names that match iostat-*.output
FileNames == {FileA, FileB, FileC}

\* threshold arguments
ThresholdArgs == {<<"1", "0">>, <<"1", "0", "0">>, <<"1", "5", "0", ".", "5">>, <<"n", "a", "n">>}

\* an argument that is not given (None); a given limit n is <<n>>
None == <<>>

\* command lines: "", "10", "10 -d -l 2", "10 -l 0", "10 -d -l -1", "100 -l 1", "-e -d"
CommandLines ==
    { [threshold |-> None, detailed |-> FALSE, limit |-> None, extreme_only |-> FALSE],
      [threshold |-> <<"1", "0">>, detailed |-> FALSE, limit |-> None, extreme_only |-> FALSE],
      [threshold |-> <<"1", "0">>, detailed |-> TRUE, limit |-> <<2>>, extreme_only |-> FALSE],
      [threshold |-> <<"1", "0">>, detailed |-> FALSE, limit |-> <<0>>, extreme_only |-> FALSE],
      [threshold |-> <<"1", "0">>, detailed |-> TRUE, limit |-> <<-1>>, extreme_only |-> FALSE],
      [threshold |-> <<"1", "0", "0">>, detailed |-> FALSE, limit |-> <<1>>, extreme_only |-> FALSE],
      [threshold |-> None, detailed |-> TRUE, limit |-> None, extreme_only |-> TRUE] }

(***************************************************************************)
(* main: helpers                                                           *)
(***************************************************************************)
\* the characters of file names, in code point order
CodePoints ==
    <<"-", ".", "/", "0", "1", "2", "3", "4", "5", "6", "7", "8", "9",
      "a", "b", "c", "d", "e", "f", "g", "h", "i", "j", "k", "l", "m",
      "n", "o", "p", "q", "r", "s", "t", "u", "v", "w", "x", "y", "z">>

Ord(c) == CHOOSE i \in 1..Len(CodePoints) : CodePoints[i] = c

\* a < b on strings
RECURSIVE StrLt(_, _)
StrLt(a, b) ==
    IF Len(b) = 0 THEN FALSE
    ELSE IF Len(a) = 0 THEN TRUE
    ELSE IF a[1] = b[1] THEN StrLt(Tail(a), Tail(b))
    ELSE Ord(a[1]) < Ord(b[1])

\* sorted(S) for a set of distinct strings
RECURSIVE SortedStrings(_)
SortedStrings(S) ==
    IF S = {} THEN <<>>
    ELSE LET m == CHOOSE x \in S : \A y \in S \ {x} : StrLt(x, y)
         IN  <<m>> \o SortedStrings(S \ {m})

\* max(x['r_await'], x['w_await'])
MaxAwait(x) == PyMax(x.r_await, x.w_await)

\* list.sort(key=..., reverse=True), as CPython sorts a list shorter than
\* 64: reverse, find the leading run, binary insertion sort, reverse.
\* count_run: length of the run a[1..n] and whether it is strictly descending
RunDescending(a) == Len(a) >= 2 /\ Lt(MaxAwait(a[2]), MaxAwait(a[1]))

RunLength(a) ==
    IF Len(a) <= 1 THEN Len(a)
    ELSE LET breaks == {i \in 3..Len(a) :
                           Lt(MaxAwait(a[i]), MaxAwait(a[i - 1])) # RunDescending(a)}
         IN  SetMin(breaks \cup {Len(a) + 1}) - 1

\* binary search of the slot of pivot in the sorted a[l..r-1]
RECURSIVE InsertionPoint(_, _, _, _)
InsertionPoint(a, pivot, l, r) ==
    IF l >= r THEN l
    ELSE LET p == l + ((r - l) \div 2)
         IN  IF Lt(MaxAwait(pivot), MaxAwait(a[p]))
             THEN InsertionPoint(a, pivot, l, p)
             ELSE InsertionPoint(a, pivot, p + 1, r)

\* binarysort: a[1..start-1] is sorted, insert a[start..]
RECURSIVE BinarySort(_, _)
BinarySort(a, start) ==
    IF start > Len(a) THEN a
    ELSE LET l == InsertionPoint(a, a[start], 1, start)
             moved == SubSeq(a, 1, l - 1) \o <<a[start]>> \o SubSeq(a, l, start - 1)
                        \o SubSeq(a, start + 1, Len(a))
         IN  BinarySort(moved, start + 1)

SortAscending(a) ==
    LET n == RunLength(a)
        run == IF RunDescending(a) THEN Reverse(SubSeq(a, 1, n)) ELSE SubSeq(a, 1, n)
    IN  BinarySort(run \o SubSeq(a, n + 1, Len(a)), n + 1)

SortByMaxAwaitReverse(a) == Reverse(SortAscending(Reverse(a)))

\* a[:n]
SliceTo(a, n) ==
    IF n >= 0 THEN SubSeq(a, 1, IF n < Len(a) THEN n ELSE Len(a))
    ELSE SubSeq(a, 1, IF Len(a) + n > 0 THEN Len(a) + n ELSE 0)

\* max(list) of a non-empty list of floats
RECURSIVE MaxFrom(_, _)
MaxFrom(m, rest) ==
    IF Len(rest) = 0 THEN m
    ELSE MaxFrom(IF Gt(rest[1], m) THEN rest[1] ELSE m, Tail(rest))

MaxOfList(l) == MaxFrom(l[1], Tail(l))

\* result['filename'].split('-')
NameTokens(filename) == SplitOn(filename, "-")

\* result['filename'].split('-')[1]
ServerOf(filename) == NameTokens(filename)[2]

\* entries of by_server for one server, in the order of all_results
EntriesOf(results, server) ==
    LET OfServer(r) == ServerOf(r.filename) = server IN SelectSeq(results, OfServer)

\* the servers of results, each once, in order of first appearance
RECURSIVE ServersInOrder(_, _)
ServersInOrder(results, seen) ==
    IF Len(results) = 0 THEN <<>>
    ELSE LET s == ServerOf(results[1].filename)
         IN  IF s \in seen THEN ServersInOrder(Tail(results), seen)
             ELSE <<s>> \o ServersInOrder(Tail(results), seen \cup {s})

\* the dict by_server after the grouping loop
GroupByServer(results) ==
    LET servers == ServersInOrder(results, {})
    IN  [i \in 1..Len(servers) |->
            [server |-> servers[i], entries |-> EntriesOf(results, servers[i])]]

\* the lines of the summary by server: sorted(by_server.items())
ServerSummary(groups) ==
    LET names == SortedStrings({groups[i].server : i \in 1..Len(groups)})
        GroupOf(s) == CHOOSE i \in 1..Len(groups) : groups[i].server = s
    IN  [j \in 1..Len(names) |->
            LET e == groups[GroupOf(names[j])].entries
            IN  [server |-> names[j],
                 count |-> Len(e),
                 max_await |-> MaxOfList([i \in 1..Len(e) |-> MaxAwait(e[i])])]]

\* display_limit = args.limit if args.limit else len(all_results)
DisplayLimit(limit, results) ==
    IF limit # None /\ limit[1] # 0 THEN limit[1] ELSE Len(results)

\* len([r for r in results if lo <= max_await(r)]) and the six bounded buckets
CountFrom(results, lo) ==
    Cardinality({i \in 1..Len(results) : Ge(MaxAwait(results[i]), lo)})

CountBetween(results, lo, hi) ==
    Cardinality({i \in 1..Len(results) :
                    Le(lo, MaxAwait(results[i])) /\ Lt(MaxAwait(results[i]), hi)})

SeverityBreakdown(results, t) ==
    [catastrophic |-> CountFrom(results, Num(5000, 1)),
     critical |-> CountBetween(results, Num(1000, 1), Num(5000, 1)),
     extreme |-> CountBetween(results, Num(500, 1), Num(1000, 1)),
     very_high |-> CountBetween(results, Num(250, 1), Num(500, 1)),
     severe |-> CountBetween(results, Num(200, 1), Num(250, 1)),
     medium_high |-> CountBetween(results, Num(100, 1), Num(200, 1)),
     normal |-> CountBetween(results, t, Num(100, 1))]

(***************************************************************************)
(* check_high_await_times, line by line                                    *)
(***************************************************************************)
Thresholds == {Float(a).v : a \in ThresholdArgs}

NoArgs == [threshold |-> None, detailed |-> FALSE, limit |-> None, extreme_only |-> FALSE]

NoBreakdown ==
    [catastrophic |-> 0, critical |-> 0, extreme |-> 0, very_high |-> 0,
     severe |-> 0, medium_high |-> 0, normal |-> 0]

ScanIdle ==
    /\ filepath = <<>>
    /\ lines = <<>>
    /\ line_number = 0
    /\ current_timestamp = <<>>
    /\ high_await_lines = <<>>

MainIdle ==
    /\ args = NoArgs
    /\ iostat_files = <<>>
    /\ fidx = 1
    /\ all_results = <<>>
    /\ by_server = <<>>
    /\ server_summary = <<>>
    /\ display_limit = 0
    /\ table_rows = <<>>
    /\ detailed_rows = <<>>
    /\ breakdown = NoBreakdown

\* a caller with some threshold is about to call check_high_await_times
InitExtract ==
    /\ pc = "call"
    /\ threshold \in Thresholds
    /\ MainIdle
    /\ ScanIdle

\* the call, open() and readlines(), and the initialisation of the locals
OpenFile ==
    /\ pc = "call"
    /\ \E path \in FileNames, content \in SeqsUpTo(Library, MaxLines) :
          /\ filepath' = path
          /\ lines' = content
          /\ current_timestamp' = InitialTimestamp
          /\ line_number' = 0
          /\ high_await_lines' = <<>>
    /\ pc' = "scan"
    /\ UNCHANGED <<threshold, mainVars>>

\* open() raises OSError: the call ends with the exception
OpenFails ==
    /\ pc = "call"
    /\ pc' = "raised_OSError"
    /\ UNCHANGED <<threshold, mainVars, scanVars>>

\* one iteration of the loop over lines
ScanLine ==
    /\ pc = "scan"
    /\ line_number < Len(lines)
    /\ line_number' = line_number + 1
    /\ high_await_lines' = high_await_lines \o
          LineRecords(filepath, line_number + 1, lines[line_number + 1],
                      current_timestamp, threshold)
    /\ current_timestamp' = NextTimestamp(current_timestamp, lines[line_number + 1])
    /\ UNCHANGED <<pc, threshold, mainVars, filepath, lines>>

\* return high_await_lines: the frame is popped and the caller may call again;
\* current_timestamp keeps its last value until the next call initialises it
ReturnResults ==
    /\ pc = "scan"
    /\ line_number = Len(lines)
    /\ pc' = "call"
    /\ filepath' = <<>>
    /\ lines' = <<>>
    /\ line_number' = 0
    /\ high_await_lines' = <<>>
    /\ UNCHANGED <<threshold, mainVars, current_timestamp>>

NextExtract == OpenFile \/ OpenFails \/ ScanLine \/ ReturnResults

SpecExtract == InitExtract /\ [][NextExtract]_vars

(***************************************************************************)
(* main                                                                    *)
(***************************************************************************)
Init ==
    /\ pc = "parse_args"
    /\ threshold = Num(100, 1)
    /\ MainIdle
    /\ ScanIdle

\* parser.parse_args() and the choice of the threshold
ParseArgs ==
    /\ pc = "parse_args"
    /\ \E a \in CommandLines :
          /\ args' = a
          /\ threshold' = IF a.extreme_only THEN Num(1000, 1)
                          ELSE IF a.threshold = None THEN Num(100, 1)
                          ELSE Float(a.threshold).v
    /\ pc' = "glob"
    /\ UNCHANGED <<iostat_files, fidx, all_results, by_server, server_summary,
                   display_limit, table_rows, detailed_rows, breakdown, scanVars>>

\* glob.glob("iostat-*.output"); no file: return
Glob ==
    /\ pc = "glob"
    /\ \E found \in SUBSET FileNames :
          /\ Cardinality(found) <= MaxFiles
          /\ iostat_files' = SortedStrings(found)
          /\ pc' = IF found = {} THEN "done" ELSE "files"
    /\ fidx' = 1
    /\ UNCHANGED <<args, threshold, all_results, by_server, server_summary,
                   display_limit, table_rows, detailed_rows, breakdown, scanVars>>

\* the value of current_timestamp when the loop over ls ends
RECURSIVE LastTimestamp(_, _)
LastTimestamp(ts, ls) ==
    IF Len(ls) = 0 THEN ts ELSE LastTimestamp(NextTimestamp(ts, ls[1]), Tail(ls))

\* one iteration of the per-file loop: the file is read and scanned
ProcessFile ==
    /\ pc = "files"
    /\ fidx <= Len(iostat_files)
    /\ \E content \in SeqsUpTo(RunLibrary, MaxFileLines) :
          LET results == check_high_await_times(iostat_files[fidx], content, threshold)
          IN  /\ filepath' = iostat_files[fidx]
              /\ lines' = content
              /\ line_number' = Len(content)
              /\ current_timestamp' = LastTimestamp(InitialTimestamp, content)
              /\ high_await_lines' = results
              /\ all_results' = all_results \o results
    /\ fidx' = fidx + 1
    /\ UNCHANGED <<pc, args, threshold, iostat_files, by_server, server_summary,
                   display_limit, table_rows, detailed_rows, breakdown>>

\* one iteration of the per-file loop: open() raises OSError, which nothing catches
ProcessFileFails ==
    /\ pc = "files"
    /\ fidx <= Len(iostat_files)
    /\ filepath' = iostat_files[fidx]
    /\ pc' = "raised_OSError"
    /\ UNCHANGED <<args, threshold, iostat_files, fidx, all_results, by_server,
                   server_summary, display_limit, table_rows, detailed_rows, breakdown,
                   lines, line_number, current_timestamp, high_await_lines>>

\* after the loop: nothing found: return
NoResults ==
    /\ pc = "files"
    /\ fidx > Len(iostat_files)
    /\ all_results = <<>>
    /\ pc' = "done"
    /\ UNCHANGED <<threshold, mainVars, scanVars>>

\* after the loop: all_results.sort(...)
SortResults ==
    /\ pc = "files"
    /\ fidx > Len(iostat_files)
    /\ all_results # <<>>
    /\ all_results' = SortByMaxAwaitReverse(all_results)
    /\ pc' = "group"
    /\ UNCHANGED <<args, threshold, iostat_files, fidx, by_server, server_summary,
                   display_limit, table_rows, detailed_rows, breakdown, scanVars>>

\* the grouping loop and the summary by server; split('-')[1] raises
\* IndexError on a name without a dash
SummaryByServer ==
    /\ pc = "group"
    /\ IF \E i \in 1..Len(all_results) : Len(NameTokens(all_results[i].filename)) < 2
       THEN /\ pc' = "raised_IndexError"
            /\ UNCHANGED <<by_server, server_summary>>
       ELSE /\ by_server' = GroupByServer(all_results)
            /\ server_summary' = ServerSummary(GroupByServer(all_results))
            /\ pc' = "table"
    /\ UNCHANGED <<args, threshold, iostat_files, fidx, all_results,
                   display_limit, table_rows, detailed_rows, breakdown, scanVars>>

\* the summary table
SummaryTable ==
    /\ pc = "table"
    /\ display_limit' = DisplayLimit(args.limit, all_results)
    /\ table_rows' = SliceTo(all_results, DisplayLimit(args.limit, all_results))
    /\ pc' = "detailed"
    /\ UNCHANGED <<args, threshold, iostat_files, fidx, all_results, by_server,
                   server_summary, detailed_rows, breakdown, scanVars>>

\* the detailed entries, if requested
DetailedEntries ==
    /\ pc = "detailed"
    /\ detailed_rows' = IF ~args.detailed THEN <<>>
                        ELSE IF display_limit # 0 THEN SliceTo(all_results, display_limit)
                        ELSE all_results
    /\ pc' = "severity"
    /\ UNCHANGED <<args, threshold, iostat_files, fidx, all_results, by_server,
                   server_summary, display_limit, table_rows, breakdown, scanVars>>

\* the severity breakdown
PrintBreakdown ==
    /\ pc = "severity"
    /\ breakdown' = SeverityBreakdown(all_results, threshold)
    /\ pc' = "done"
    /\ UNCHANGED <<args, threshold, iostat_files, fidx, all_results, by_server,
                   server_summary, display_limit, table_rows, detailed_rows, scanVars>>

Next ==
    \/ ParseArgs
    \/ Glob
    \/ ProcessFile
    \/ ProcessFileFails
    \/ NoResults
    \/ SortResults
    \/ SummaryByServer
    \/ SummaryTable
    \/ DetailedEntries
    \/ PrintBreakdown

Spec == Init /\ [][Next]_vars

(***************************************************************************)
(* Properties of check_high_await_times (checked under SpecExtract)        *)
(***************************************************************************)
Zero == Num(0, 1)

\* a record for line n of the scanned file has been emitted
Emitted(n) == \E i \in 1..Len(high_await_lines) : high_await_lines[i].line_number = n

\* what the properties say about a line, computed once per line of the library
LineFacts ==
    [l \in Library |->
        LET clean == CleanLine(l)
            tokens == Split(clean)
        IN  [clean |-> clean,
             tokens |-> tokens,
             timestamp |-> IsTimestamp(clean),
             header |-> \/ StartsWith(clean, DeviceWord)
                        \/ StartsWith(clean, AvgCpuWord)
                        \/ (Len(tokens) > 0 /\ tokens[1] = LinuxWord),
             r |-> IF Len(tokens) >= 11 THEN Float(tokens[10]) ELSE [ok |-> FALSE, v |-> NaN],
             w |-> IF Len(tokens) >= 11 THEN Float(tokens[11]) ELSE [ok |-> FALSE, v |-> NaN]]]

\* the line is a timestamp line
TimestampLine(line) == LineFacts[line].timestamp

\* the cleaned text of the line
CleanText(line) == LineFacts[line].clean

\* the line is a table header or a banner
HeaderLine(line) == LineFacts[line].header

\* a candidate device-statistics row: not a timestamp or header line, at
\* least 16 tokens, tokens 9 and 10 (counted from 0) numeric
CandidateRow(line) ==
    /\ ~TimestampLine(line)
    /\ ~HeaderLine(line)
    /\ Len(LineFacts[line].tokens) >= 16
    /\ LineFacts[line].r.ok
    /\ LineFacts[line].w.ok

\* a malformed row: neither timestamp nor header, too few tokens or an
\* await token that is not numeric
MalformedRow(line) ==
    /\ ~TimestampLine(line)
    /\ ~HeaderLine(line)
    /\ Len(LineFacts[line].tokens) > 0
    /\ \/ Len(LineFacts[line].tokens) < 16
       \/ ~LineFacts[line].r.ok
       \/ ~LineFacts[line].w.ok

\* a candidate row with an await above the threshold
QualifyingRow(line, t) ==
    /\ CandidateRow(line)
    /\ \/ Gt(LineFacts[line].r.v, t)
       \/ Gt(LineFacts[line].w.v, t)

\* C1: a candidate row is emitted if and only if r_await > t or
\* w_await > t, and every emitted record has max(r_await, w_await) > t.
C1_EmittedIffAboveThreshold ==
    pc = "scan" =>
       /\ \A n \in 1..line_number :
             CandidateRow(lines[n]) => (Emitted(n) <=> QualifyingRow(lines[n], threshold))
       /\ \A i \in 1..Len(high_await_lines) :
             Gt(PyMax(high_await_lines[i].r_await, high_await_lines[i].w_await), threshold)

\* C2: every emitted record carries the cleaned text of the last timestamp
\* line before it in the file being scanned, and the empty string when the
\* file has no timestamp line before it, whatever files were scanned before.
C2_TimestampCarriedForward ==
    \A i \in 1..Len(high_await_lines) :
       LET rec == high_await_lines[i]
           before == {j \in 1..(rec.line_number - 1) : TimestampLine(lines[j])}
       IN  rec.timestamp = IF before = {} THEN <<>> ELSE CleanText(lines[SetMax(before)])

\* a record carries the second of two different timestamps of its file,
\* and a record of a file scanned after another file carries none
C2_Witness ==
    /\ pc = "scan"
    /\ \E i \in 1..Len(high_await_lines) :
          LET rec == high_await_lines[i]
          IN  /\ rec.line_number = 3
              /\ lines[1] = LineTs1
              /\ lines[2] = LineTs2
              /\ rec.timestamp = CleanText(LineTs2)
              /\ rec.timestamp # CleanText(LineTs1)

\* C8, in every state: a malformed row that was scanned has no record, every
\* qualifying row that was scanned has one (also after a malformed row), and
\* every record has at least 16 fields and both awaits parsed.
C8_StateInv ==
    pc = "scan" =>
       /\ \A n \in 1..line_number : MalformedRow(lines[n]) => ~Emitted(n)
       /\ \A n \in 1..line_number : QualifyingRow(lines[n], threshold) => Emitted(n)
       /\ \A i \in 1..Len(high_await_lines) :
             LET rec == high_await_lines[i]
             IN  /\ Len(rec.all_parts) >= 16
                 /\ Float(rec.all_parts[10]).ok
                 /\ Float(rec.all_parts[11]).ok
                 /\ rec.r_await = Float(rec.all_parts[10]).v
                 /\ rec.w_await = Float(rec.all_parts[11]).v

\* C8, in every step: scanning a malformed row changes neither the carried
\* timestamp nor the records, and the scan goes on to the next line.
C8_Step ==
    (pc = "scan" /\ line_number < Len(lines) /\ MalformedRow(lines[line_number + 1]))
       => /\ pc' = "scan"
          /\ line_number' = line_number + 1
          /\ current_timestamp' = current_timestamp
          /\ high_await_lines' = high_await_lines

\* C8: a malformed row is skipped and never fatal.
C8_MalformedRowSkipped == []C8_StateInv /\ [][C8_Step]_vars

\* a malformed row was scanned after a timestamp line, and a later
\* qualifying row was emitted with that timestamp
C8_Witness ==
    /\ pc = "scan"
    /\ \E n0, n1, n2 \in 1..line_number :
          /\ n0 < n1
          /\ n1 < n2
          /\ TimestampLine(lines[n0])
          /\ MalformedRow(lines[n1])
          /\ ~Emitted(n1)
          /\ QualifyingRow(lines[n2], threshold)
          /\ \E i \in 1..Len(high_await_lines) :
                /\ high_await_lines[i].line_number = n2
                /\ high_await_lines[i].timestamp = CleanText(lines[n0])

\* C10: every emitted record has non-negative read and write awaits.
C10_AwaitsNonNegative ==
    \A i \in 1..Len(high_await_lines) :
       /\ Ge(high_await_lines[i].r_await, Zero)
       /\ Ge(high_await_lines[i].w_await, Zero)

(***************************************************************************)
(* Properties of main (checked under Spec)                                 *)
(***************************************************************************)
\* position of a file name in the per-file loop
FilePosition(name) == CHOOSE k \in 1..Len(iostat_files) : iostat_files[k] = name

\* record a comes before record b in the concatenated per-file records
ConcatBefore(a, b) ==
    \/ FilePosition(a.filename) < FilePosition(b.filename)
    \/ (a.filename = b.filename /\ a.line_number < b.line_number)

Occurrences(seq, x) == Cardinality({i \in 1..Len(seq) : seq[i] = x})

IsPermutation(a, b) ==
    /\ Len(a) = Len(b)
    /\ \A i \in 1..Len(a) : Occurrences(a, a[i]) = Occurrences(b, a[i])

Peak(rec) == PyMax(rec.r_await, rec.w_await)

\* after is a permutation of before in which the peak never increases and
\* records of equal peak keep the order of the concatenated per-file records
C4_Sorted(before, after) ==
    /\ IsPermutation(before, after)
    /\ \A i, j \in 1..Len(after) : i < j => ~Lt(Peak(after[i]), Peak(after[j]))
    /\ \A i, j \in 1..Len(after) :
          (i < j /\ FEq(Peak(after[i]), Peak(after[j]))) => ConcatBefore(after[i], after[j])

\* C4: the global sort leaves a permutation of the concatenated per-file
\* records ordered by non-increasing peak, and it is stable.
C4_StableDescendingSort ==
    [][(pc = "files" /\ pc' = "group") => C4_Sorted(all_results, all_results')]_vars

\* the first n elements of a sequence
FirstN(seq, n) == [i \in 1..(IF n < Len(seq) THEN n ELSE Len(seq)) |-> seq[i]]

\* the view a display limit asks for: the first N for N > 0, else everything
TopView(limit, results) ==
    IF limit # None /\ limit[1] > 0 THEN FirstN(results, limit[1]) ELSE results

C6_UnreadableFileRecovered == pc # "raised_OSError"

BucketSum(b) ==
    b.catastrophic + b.critical + b.extreme + b.very_high + b.severe
       + b.medium_high + b.normal

\* C3: the seven bucket counts sum to len(all_results), and the Slow bucket
\* is empty when the threshold is at least 100.
C3_BucketsPartition ==
    (pc = "done" /\ all_results # <<>>) =>
       /\ BucketSum(breakdown) = Len(all_results)
       /\ Ge(threshold, Num(100, 1)) => breakdown.normal = 0

\* C7: every record is in exactly one host group, keyed by the second
\* dash-delimited token of its file name; the group sizes sum to
\* len(all_results); each reported maximum is the greatest peak of its group
\* (the peak of one of its records, and at least every peak that is a number).
C7_HostGroups ==
    pc = "table" =>
       /\ \A i \in 1..Len(all_results) :
             Cardinality({g \in 1..Len(by_server) :
                 \E k \in 1..Len(by_server[g].entries) :
                    by_server[g].entries[k] = all_results[i]}) = 1
       /\ \A g \in 1..Len(by_server) : \A k \in 1..Len(by_server[g].entries) :
             SplitOn(by_server[g].entries[k].filename, "-")[2] = by_server[g].server
       /\ \A g \in 1..Len(server_summary) :
             LET members == {i \in 1..Len(all_results) :
                               SplitOn(all_results[i].filename, "-")[2]
                                  = server_summary[g].server}
             IN  /\ server_summary[g].count = Cardinality(members)
                 /\ \E i \in members : server_summary[g].max_await = Peak(all_results[i])
                 /\ \A i \in members :
                       Peak(all_results[i]).k # "nan"
                          => Ge(server_summary[g].max_await, Peak(all_results[i]))
       /\ LET RECURSIVE Total(_)
              Total(g) == IF g = 0 THEN 0 ELSE server_summary[g].count + Total(g - 1)
          IN  Total(Len(server_summary)) = Len(all_results)

====
